---- MODULE Spec2Model ----
\* Model of the shell-server command dispatch pipeline (src/src/config.ts):
\* splitCommand, the denylist and validateCommand, and the CallToolRequestSchema
\* handler with its two suspension points (the existence lookup and the child
\* process).
\*
\* A JavaScript string is a sequence of one-character strings; response texts
\* and error messages are sequences of pieces (a literal of the source, or the
\* characters of an interpolated value), so that concatenation is \o.
EXTENDS Integers, Sequences, FiniteSets, TLC

\* ---------------------------------------------------------------- bounds
\* number of invocations that can be in flight together
NumInv == 2
\* longest command string drawn for the tokenizer specification
MaxLen == 4
\* most chunks a child process writes to one of its output streams
MaxChunks == 1
\* most interrupt signals delivered to the host process
MaxSignals == 2

\* ------------------------------------------------------------ characters
DQ == "\""
SQ == "'"
BS == "\\"
NL == "\n"

\* the characters matched by \s that the model draws or produces
WhiteSpace == {" ", "\t", NL}

\* the alphabet command strings are drawn from in the tokenizer specification
Alphabet == {"a", "n", " ", DQ, SQ, BS}

\* the JavaScript value undefined, kept apart from every string: a sequence
\* whose only element is no character
Undefined == <<"#undefined">>

\* String(undefined), as a template literal interpolates it
UndefinedText == <<"u", "n", "d", "e", "f", "i", "n", "e", "d">>

\* ToString of a string or of undefined
ToStr(v) == IF v = Undefined THEN UndefinedText ELSE v

\* JavaScript truthiness of a string or undefined: the operand test of ||
Truthy(v) == v # Undefined /\ v # <<>>

\* ------------------------------------------------------------- tokenizer
\* the class [^\s"'] of the first alternative
IsBare(c) == c \notin WhiteSpace /\ c # DQ /\ c # SQ

\* last index of the maximal run [^\s"']+ that starts at i
RECURSIVE BareEnd(_, _)
BareEnd(s, i) ==
  IF i + 1 <= Len(s) /\ IsBare(s[i + 1]) THEN BareEnd(s, i + 1) ELSE i

\* least index j >= i with s[j] = q, or 0: where [^q]* stops before q
RECURSIVE FindChar(_, _, _)
FindChar(s, q, i) ==
  IF i > Len(s) THEN 0
  ELSE IF s[i] = q THEN i
  ELSE FindChar(s, q, i + 1)

NoMatch == [found |-> FALSE, index |-> 0, last |-> 0, m0 |-> <<>>,
            g1 |-> Undefined, g2 |-> Undefined]

\* the regex anchored at position p: the alternatives in their written order
MatchAt(s, p) ==
  IF IsBare(s[p])
    THEN [found |-> TRUE, index |-> p, last |-> BareEnd(s, p),
          m0 |-> SubSeq(s, p, BareEnd(s, p)),
          g1 |-> Undefined, g2 |-> Undefined]
  ELSE IF s[p] = DQ /\ FindChar(s, DQ, p + 1) # 0
    THEN [found |-> TRUE, index |-> p, last |-> FindChar(s, DQ, p + 1),
          m0 |-> SubSeq(s, p, FindChar(s, DQ, p + 1)),
          g1 |-> SubSeq(s, p + 1, FindChar(s, DQ, p + 1) - 1),
          g2 |-> Undefined]
  ELSE IF s[p] = SQ /\ FindChar(s, SQ, p + 1) # 0
    THEN [found |-> TRUE, index |-> p, last |-> FindChar(s, SQ, p + 1),
          m0 |-> SubSeq(s, p, FindChar(s, SQ, p + 1)),
          g1 |-> Undefined,
          g2 |-> SubSeq(s, p + 1, FindChar(s, SQ, p + 1) - 1)]
  ELSE NoMatch

\* regex.exec with the g flag: the first match at or after position p
RECURSIVE RegexExec(_, _)
RegexExec(s, p) ==
  IF p > Len(s) THEN NoMatch
  ELSE IF MatchAt(s, p).found THEN MatchAt(s, p)
  ELSE RegexExec(s, p + 1)

\* a replace without the g flag: the first backslash-n pair only
RECURSIVE ReplaceFirstEscapedNewline(_)
ReplaceFirstEscapedNewline(s) ==
  IF Len(s) = 0 THEN <<>>
  ELSE IF Len(s) >= 2 /\ s[1] = BS /\ s[2] = "n"
    THEN <<NL>> \o SubSeq(s, 3, Len(s))
  ELSE <<s[1]>> \o ReplaceFirstEscapedNewline(Tail(s))

\* arg.replace(/\\n/g, '\n'): each backslash-n pair, left to right
RECURSIVE ReplaceEscapedNewline(_)
ReplaceEscapedNewline(s) ==
  IF Len(s) = 0 THEN <<>>
  ELSE IF Len(s) >= 2 /\ s[1] = BS /\ s[2] = "n"
    THEN <<NL>> \o ReplaceEscapedNewline(SubSeq(s, 3, Len(s)))
  ELSE <<s[1]>> \o ReplaceEscapedNewline(Tail(s))

\* match[1] || match[2] || match[0]
MatchArg(m) ==
  IF Truthy(m.g1) THEN m.g1
  ELSE IF Truthy(m.g2) THEN m.g2
  ELSE m.m0

\* the matches of the while loop, in order, from position p on
RECURSIVE SplitMatches(_, _)
SplitMatches(s, p) ==
  IF ~RegexExec(s, p).found THEN <<>>
  ELSE <<RegexExec(s, p)>> \o SplitMatches(s, RegexExec(s, p).last + 1)

\* splitCommand: regex.exec coerces its argument to a string
splitCommand(command) ==
  LET ms == SplitMatches(ToStr(command), 1)
  IN  [k \in 1..Len(ms) |-> ReplaceEscapedNewline(MatchArg(ms[k]))]

\* --------------------------------------------------------------- denylist
BLACKLISTED_COMMANDS ==
  { <<"r", "m">>, <<"r", "m", "d", "i", "r">>, <<"d", "e", "l">>,
    <<"f", "o", "r", "m", "a", "t">>, <<"m", "k", "f", "s">>, <<"d", "d">>,
    <<"c", "h", "m", "o", "d">>, <<"c", "h", "o", "w", "n">>,
    <<"s", "u", "d", "o">>, <<"s", "u">>,
    <<"e", "x", "e", "c">>, <<"e", "v", "a", "l">>,
    <<"w", "r", "i", "t", "e">>, <<"w", "a", "l", "l">>,
    <<"s", "h", "u", "t", "d", "o", "w", "n">>,
    <<"r", "e", "b", "o", "o", "t">>, <<"i", "n", "i", "t">>,
    <<"m", "k", "f", "s">> }

\* a gate that compares without regard to case
ToLowerCase(c) == IF c = "R" THEN "r" ELSE IF c = "M" THEN "m" ELSE c
validateCommandIgnoreCase(baseCommand) ==
  [k \in 1..Len(baseCommand) |-> ToLowerCase(baseCommand[k])]
    \notin BLACKLISTED_COMMANDS

\* a gate that lets every name through
validateCommandAllowAll(baseCommand) == TRUE

validateCommand(baseCommand) == baseCommand \notin BLACKLISTED_COMMANDS

\* ----------------------------------------------------- requests and errors
Inv == 1..NumInv

RUN_COMMAND == "run_command"

\* operation names a request can carry
ToolNames == {RUN_COMMAND, "other_tool"}

\* command strings of the concurrent specification
CoreCommands ==
  { <<>>, <<" ">>, <<"l", "s">>, <<"r", "m", " ", "x">> }

\* command strings of the one-invocation specification: every denylisted name
\* bare, and the shapes around it (absent, blank, quoted, other case, path
\* prefix, denylisted name as argument, empty quoted argument)
AllCommands ==
  BLACKLISTED_COMMANDS \cup CoreCommands \cup
  { Undefined, <<" ", "\t">>,
    <<DQ, "r", "m", DQ, " ", "x">>, <<SQ, "s", "u", SQ>>,
    <<"R", "M">>, <<"/", "b", "i", "n", "/", "r", "m">>,
    <<"l", "s", " ", "r", "m">>, <<"l", "s", " ", DQ, DQ>>,
    <<DQ, "l", "s", " ", "-", "l", DQ>> }

\* an Error object, or the value null a promise can be rejected with
MkError(message) == [isNull |-> FALSE, message |-> message]
NullValue == [isNull |-> TRUE, message |-> <<>>]

\* String(error)
String(error) ==
  IF error.isNull THEN <<"null">> ELSE <<"Error: ">> \o error.message

UnknownToolError(name) == MkError(<<"Unknown tool: ", name>>)

NotFoundError(shell_command) ==
  MkError(<<"Command not found: ">> \o ToStr(shell_command))

\* the policy failure reported under the resolver's message
NotAllowedErrorAsNotFound(shell_command) ==
  MkError(<<"Command not found: ">> \o ToStr(shell_command))

NotAllowedError(shell_command) ==
  MkError(<<"Command not allowed: ">> \o ToStr(shell_command))

\* what the existence lookup can be rejected with
LookupErrors == { NullValue, MkError(<<"lookup failed">>) }

\* the settled results of `await commandExists(shell_command)`: it resolves
\* truthy or falsy, or is rejected; undefined names no executable
LookupResults(shell_command) ==
  (IF shell_command = Undefined THEN {} ELSE {[kind |-> "found", error |-> NullValue]})
  \cup {[kind |-> "missing", error |-> NullValue]}
  \cup {[kind |-> "rejected", error |-> e] : e \in LookupErrors}

LookupPending == [kind |-> "pending", error |-> NullValue]
LookupNone == [kind |-> "none", error |-> NullValue]

\* a lookup whose answer is never tested
CommandExistsAlways(result) == TRUE

\* the truthiness of the awaited lookup value
CommandExists(result) == result.kind = "found"

\* ------------------------------------------------------------- responses
NoResponse == [kind |-> "none", content |-> <<>>, error |-> NullValue]

\* the handler's promise rejects: the protocol layer reports an error
Thrown(error) == [kind |-> "thrown", content |-> <<>>, error |-> error]

\* stderr || stdout
StdoutOrStderrSwapped(stdout, stderr) ==
  IF Truthy(stderr) THEN stderr ELSE stdout

\* stdout || stderr
StdoutOrStderr(stdout, stderr) ==
  IF Truthy(stdout) THEN stdout ELSE stderr

\* a success response that leaves out the mimeType
SuccessResponseNoMime(stdout, stderr) ==
  [kind |-> "content",
   content |-> <<[type |-> "text", text |-> StdoutOrStderr(stdout, stderr),
                  mimeType |-> ""]>>,
   error |-> NullValue]

\* the return of the try block
SuccessResponse(stdout, stderr) ==
  [kind |-> "content",
   content |-> <<[type |-> "text", text |-> StdoutOrStderr(stdout, stderr),
                  mimeType |-> "text/plain"]>>,
   error |-> NullValue]

\* a catch block that throws the error on
CatchResponseRethrow(error) == Thrown(error)

\* the return of the catch block
CatchResponse(error) ==
  [kind |-> "content",
   content |-> <<[type |-> "text", text |-> String(error),
                  mimeType |-> "text/plain"]>>,
   error |-> NullValue]

\* ---------------------------------------------------------- child process
NoChild == [state |-> "none", file |-> <<>>, args |-> <<>>,
            stdout |-> <<>>, stderr |-> <<>>, exitCode |-> 0]

\* execa(shell_command, args, {shell: true, env: process.env})
Execa(shell_command, args) ==
  [state |-> "running", file |-> shell_command, args |-> args,
   stdout |-> <<>>, stderr |-> <<>>, exitCode |-> 0]

\* the rejection of execa's promise: launch failure or non-zero exit
ExecaError(ch) ==
  IF ch.state = "failed"
    THEN MkError(<<"Command failed: ">> \o ch.file)
    ELSE MkError(<<"Command failed with exit code ", "1", ": ">> \o ch.file
                 \o ch.stderr)

\* a continuation that does not wait for the child
ExecaSettledNoAwait(ch) == ch.state # "none"

\* `await execa(...)` resumes once the child has exited or failed to launch
ExecaSettled(ch) == ch.state \in {"exited", "failed"}

\* a guard that lets every operation name in
IsRunCommandAny(name) == TRUE

\* request.params.name !== 'run_command', negated
IsRunCommand(name) == name = RUN_COMMAND

\* a destructuring that defaults the executable to the empty string
FirstTokenOrEmpty(tokens) == IF Len(tokens) = 0 THEN <<>> ELSE tokens[1]

\* const [shell_command, ...args] = splitCommand(command)
FirstToken(tokens) == IF Len(tokens) = 0 THEN Undefined ELSE tokens[1]
RestTokens(tokens) == IF Len(tokens) = 0 THEN <<>> ELSE Tail(tokens)

\* ------------------------------------------------------------ bootstrap
\* A JavaScript value of the config: its type, its members (for an object, or
\* the non-index properties of an array) and its scalar text.
EmptyMap == [k \in {} |-> 0]
JVal(t, m, v) == [t |-> t, m |-> m, v |-> v]
JUndefined == JVal("undefined", EmptyMap, "")
JNull == JVal("null", EmptyMap, "")
JNumber == JVal("number", EmptyMap, "5")
JString(v) == JVal("string", EmptyMap, v)
JArray == JVal("array", EmptyMap, "")
JObject(m) == JVal("object", m, "")

\* the config file when it does not exist, and when it is not JSON
FileAbsent == JVal("absent", EmptyMap, "")
FileInvalid == JVal("invalid", EmptyMap, "")

\* truthiness, the operand test of `config.mcpServers || {}`
JTruthy(v) == v.t \notin {"undefined", "null"}

\* reading a property throws on null and undefined
CanGet(v) == v.t \notin {"undefined", "null"}

\* v[k]
Get(v, k) == IF k \in DOMAIN v.m THEN v.m[k] ELSE JUndefined

\* writing a property throws on a primitive (module code is strict)
CanSet(v) == v.t \in {"object", "array"}

\* v[k] = x
Set(v, k, x) ==
  JVal(v.t, [y \in (DOMAIN v.m) \cup {k} |-> IF y = k THEN x ELSE v.m[y]], v.v)

\* JSON.stringify: an object keeps its members, an array keeps only its
\* elements (the arrays of the model have none)
RECURSIVE Stringify(_)
Stringify(v) ==
  IF v.t = "object" THEN JObject([k \in DOMAIN v.m |-> Stringify(v.m[k])])
  ELSE IF v.t = "array" THEN JArray
  ELSE v

\* JSON.parse(fs.readFileSync(configPath, 'utf8')): throws when the file is
\* missing or is not JSON
JSONParse(file) ==
  [ok |-> file.t \notin {"absent", "invalid"}, value |-> file]

\* the paths in which '/_npx/' occurs, and one in which it does not
NpxPath == "/home/u/.npm/_npx/1a2b/node_modules/.bin/shell-server"
PlainPath == "/usr/local/bin/shell-server"
IncludesNpx(path) == path = NpxPath

\* process.env entries that are not set
Unset == ""

\* the three tests of isNpx
IsNpx(e) ==
  \/ IncludesNpx(e.argv1)
  \/ e.npm_command = "exec"
  \/ (e.underscore # Unset /\ IncludesNpx(e.underscore))

Platforms == {"darwin", "win32", "linux"}

\* getConfigPath: throws on every platform but these two
PlatformSupported(platform) == platform \in {"darwin", "win32"}

\* console.log writes to standard output, console.error to standard error
ConsoleLog(msg) == [stream |-> "stdout", msg |-> msg]
ConsoleError(msg) == [stream |-> "stderr", msg |-> msg]

\* an mcpServers that is always started afresh
EnsureServersReset(config) == Set(config, "mcpServers", JObject(EmptyMap))

\* config.mcpServers = config.mcpServers || {}
EnsureServers(config) ==
  Set(config, "mcpServers",
      IF JTruthy(Get(config, "mcpServers")) THEN Get(config, "mcpServers")
      ELSE JObject(EmptyMap))

\* { command: scriptPath }
ServerEntry(scriptPath) == JObject([command |-> JString(scriptPath)])

\* config.mcpServers['shell-server'] = { command: scriptPath }
SetShellServer(config, scriptPath) ==
  Set(config, "mcpServers",
      Set(Get(config, "mcpServers"), "shell-server", ServerEntry(scriptPath)))

\* the body of the outer try of updateConfig, up to the write: the config to
\* write, or the throw
BuildConfig(file, scriptPath) ==
  LET parsed == JSONParse(file)
      config == IF parsed.ok THEN parsed.value ELSE JObject(EmptyMap)
  IN  IF ~CanGet(config) \/ ~CanSet(config)
        THEN [threw |-> TRUE, config |-> config]
      ELSE IF ~CanSet(Get(EnsureServers(config), "mcpServers"))
        THEN [threw |-> TRUE, config |-> EnsureServers(config)]
      ELSE [threw |-> FALSE,
            config |-> SetShellServer(EnsureServers(config), scriptPath)]

\* the config files of the model: no file, no JSON, JSON that is no object,
\* and objects with and without another key and with each kind of mcpServers
OtherEntry == JObject([command |-> JString("/opt/other-server")])
OldEntry == JObject([command |-> JString("/old/shell-server")])

ServersValues ==
  { JNull, JNumber, JArray, JObject(EmptyMap),
    JObject([other |-> OtherEntry]),
    JObject([other |-> OtherEntry] @@ ("shell-server" :> OldEntry)) }

ConfigObjects ==
  { JObject(EmptyMap), JObject([theme |-> JString("dark")]) }
  \cup { JObject([mcpServers |-> sv]) : sv \in ServersValues }
  \cup { JObject([theme |-> JString("dark"), mcpServers |-> sv]) :
           sv \in ServersValues }

ConfigFiles ==
  { FileAbsent, FileInvalid, JNull, JNumber, JArray } \cup ConfigObjects

\* ----------------------------------------------------------------- state
VARIABLES
  pc,             \* per invocation: idle, awaitLookup, awaitExec, done
  req,            \* per invocation: the request, [name, command]
  shell_command,  \* per invocation: the first token, or undefined
  args,           \* per invocation: the remaining tokens
  lookup,         \* per invocation: the existence lookup and its result
  steps,          \* per invocation: the pipeline steps it has performed, in order
  child,          \* per invocation: its child process, if launched
  response,       \* per invocation: what the handler gave back
  tokIn,          \* tokenizer specification: the command string
  tokOut,         \* tokenizer specification: the matches and the tokens
  tokPc,          \* tokenizer specification: start, done
  proc,           \* the host process: start, configured, rejected, running, exited
  exitCode,       \* the code the host process exited with, -1 before
  transport,      \* the stdio transport: none, connected, closing, closed
  sigint,         \* SIGINT handler runs that have called server.close()
  console,        \* the console calls so far, each with the stream it writes
  env,            \* how the process was launched: argv, environment, platform
  fs,             \* the config file and its directory
  fsLog           \* the file-system calls updateConfig has made, in order

handlerVars == <<pc, req, shell_command, args, lookup, steps, child, response>>
tokVars == <<tokIn, tokOut, tokPc>>
hostVars == <<proc, exitCode, transport, sigint, console, env, fs, fsLog>>
vars == <<pc, req, shell_command, args, lookup, steps, child, response,
          tokIn, tokOut, tokPc,
          proc, exitCode, transport, sigint, console, env, fs, fsLog>>

NoRequest == [name |-> "", command |-> <<>>]

HandlerInit ==
  /\ pc = [i \in Inv |-> "idle"]
  /\ req = [i \in Inv |-> NoRequest]
  /\ shell_command = [i \in Inv |-> Undefined]
  /\ args = [i \in Inv |-> <<>>]
  /\ lookup = [i \in Inv |-> LookupNone]
  /\ steps = [i \in Inv |-> <<>>]
  /\ child = [i \in Inv |-> NoChild]
  /\ response = [i \in Inv |-> NoResponse]

TokIdle ==
  /\ tokIn = <<>>
  /\ tokOut = [matches |-> <<>>, tokens |-> <<>>]
  /\ tokPc = "off"

\* how the process can be launched
Envs ==
  [argv1 : {NpxPath, PlainPath}, npm_command : {"exec", Unset},
   underscore : {NpxPath, Unset}, platform : Platforms]

\* the config file and whether its directory exists: a file has a directory
FsStates ==
  {[file |-> f, dirExists |-> TRUE] : f \in ConfigFiles}
  \cup {[file |-> FileAbsent, dirExists |-> FALSE]}

\* a launch from an installed script, not through a package runner
PlainEnv == [argv1 |-> PlainPath, npm_command |-> Unset, underscore |-> Unset,
             platform |-> "linux"]

\* the host once main has run: updateConfig returned and the server is
\* connected to its transport
HostServing ==
  /\ proc = "running"
  /\ exitCode = -1
  /\ transport = "connected"
  /\ sigint = 0
  /\ console = <<ConsoleLog("Not running via npx"),
                 ConsoleError("MCP server running on stdio")>>
  /\ env = PlainEnv
  /\ fs = [file |-> FileAbsent, dirExists |-> FALSE]
  /\ fsLog = <<>>

Init == HandlerInit /\ TokIdle /\ HostServing

\* ------------------------------------------------------- handler actions
\* A handler that evaluates the policy before it looks the executable up.
ReceivePolicyFirst(i, name, command) ==
  /\ proc = "running" /\ transport = "connected"
  /\ pc[i] = "idle"
  /\ req' = [req EXCEPT ![i] = [name |-> name, command |-> command]]
  /\ IF ~IsRunCommand(name)
       THEN /\ response' = [response EXCEPT ![i] = Thrown(UnknownToolError(name))]
            /\ pc' = [pc EXCEPT ![i] = "done"]
            /\ UNCHANGED <<shell_command, args, lookup, steps>>
     ELSE IF ~validateCommand(FirstToken(splitCommand(command)))
       THEN /\ shell_command' =
                 [shell_command EXCEPT ![i] = FirstToken(splitCommand(command))]
            /\ args' = [args EXCEPT ![i] = RestTokens(splitCommand(command))]
            /\ steps' = [steps EXCEPT ![i] = <<"tokenize", "policy">>]
            /\ response' = [response EXCEPT ![i] = CatchResponse(
                               NotAllowedError(FirstToken(splitCommand(command))))]
            /\ pc' = [pc EXCEPT ![i] = "done"]
            /\ UNCHANGED lookup
     ELSE /\ shell_command' =
               [shell_command EXCEPT ![i] = FirstToken(splitCommand(command))]
          /\ args' = [args EXCEPT ![i] = RestTokens(splitCommand(command))]
          /\ steps' = [steps EXCEPT ![i] = <<"tokenize", "policy", "lookup">>]
          /\ lookup' = [lookup EXCEPT ![i] = LookupPending]
          /\ pc' = [pc EXCEPT ![i] = "awaitLookup"]
          /\ UNCHANGED response
  /\ UNCHANGED <<child, tokVars, hostVars>>

\* The handler up to its first await: the operation-name check, the
\* tokenization, and the call of commandExists.
Receive(i, name, command) ==
  /\ proc = "running" /\ transport = "connected"
  /\ pc[i] = "idle"
  /\ req' = [req EXCEPT ![i] = [name |-> name, command |-> command]]
  /\ IF ~IsRunCommand(name)
       THEN /\ response' = [response EXCEPT ![i] = Thrown(UnknownToolError(name))]
            /\ pc' = [pc EXCEPT ![i] = "done"]
            /\ UNCHANGED <<shell_command, args, lookup, steps>>
       ELSE /\ shell_command' =
                 [shell_command EXCEPT ![i] = FirstToken(splitCommand(command))]
            /\ args' = [args EXCEPT ![i] = RestTokens(splitCommand(command))]
            /\ steps' = [steps EXCEPT ![i] = <<"tokenize", "lookup">>]
            /\ lookup' = [lookup EXCEPT ![i] = LookupPending]
            /\ pc' = [pc EXCEPT ![i] = "awaitLookup"]
            /\ UNCHANGED response
  /\ UNCHANGED <<child, tokVars, hostVars>>

\* A handler whose executable name lives in one variable shared by all
\* invocations: after the await it holds the name of another invocation in
\* flight.
SharedName(i) ==
  IF \E j \in Inv : j # i /\ pc[j] \in {"awaitLookup", "awaitExec"}
    THEN shell_command[CHOOSE j \in Inv :
                         j # i /\ pc[j] \in {"awaitLookup", "awaitExec"}]
    ELSE shell_command[i]

AfterLookupSharedName(i, result) ==
  /\ proc = "running"
  /\ pc[i] = "awaitLookup"
  /\ result \in LookupResults(shell_command[i])
  /\ lookup' = [lookup EXCEPT ![i] = result]
  /\ IF result.kind = "rejected"
       THEN /\ response' = [response EXCEPT ![i] = CatchResponse(result.error)]
            /\ pc' = [pc EXCEPT ![i] = "done"]
            /\ UNCHANGED <<steps, child>>
     ELSE IF ~CommandExists(result)
       THEN /\ response' = [response EXCEPT ![i] =
                               CatchResponse(NotFoundError(SharedName(i)))]
            /\ pc' = [pc EXCEPT ![i] = "done"]
            /\ UNCHANGED <<steps, child>>
     ELSE IF ~validateCommand(SharedName(i))
       THEN /\ response' = [response EXCEPT ![i] =
                               CatchResponse(NotAllowedError(SharedName(i)))]
            /\ pc' = [pc EXCEPT ![i] = "done"]
            /\ steps' = [steps EXCEPT ![i] = @ \o <<"policy">>]
            /\ UNCHANGED child
     ELSE /\ child' = [child EXCEPT ![i] = Execa(SharedName(i), args[i])]
          /\ steps' = [steps EXCEPT ![i] = @ \o <<"policy", "launch">>]
          /\ pc' = [pc EXCEPT ![i] = "awaitExec"]
          /\ UNCHANGED response
  /\ UNCHANGED <<req, shell_command, args, tokVars, hostVars>>

\* The lookup settles and the handler runs on to its next await or its return:
\* a rejection and both throws land in the catch block; otherwise execa starts.
AfterLookup(i, result) ==
  /\ proc = "running"
  /\ pc[i] = "awaitLookup"
  /\ result \in LookupResults(shell_command[i])
  /\ lookup' = [lookup EXCEPT ![i] = result]
  /\ IF result.kind = "rejected"
       THEN /\ response' = [response EXCEPT ![i] = CatchResponse(result.error)]
            /\ pc' = [pc EXCEPT ![i] = "done"]
            /\ UNCHANGED <<steps, child>>
     ELSE IF ~CommandExists(result)
       THEN /\ response' = [response EXCEPT ![i] =
                               CatchResponse(NotFoundError(shell_command[i]))]
            /\ pc' = [pc EXCEPT ![i] = "done"]
            /\ UNCHANGED <<steps, child>>
     ELSE IF ~validateCommand(shell_command[i])
       THEN /\ response' = [response EXCEPT ![i] =
                               CatchResponse(NotAllowedError(shell_command[i]))]
            /\ pc' = [pc EXCEPT ![i] = "done"]
            /\ steps' = [steps EXCEPT ![i] = @ \o <<"policy">>]
            /\ UNCHANGED child
     ELSE /\ child' = [child EXCEPT ![i] = Execa(shell_command[i], args[i])]
          /\ steps' = [steps EXCEPT ![i] = @ \o <<"policy", "launch">>]
          /\ pc' = [pc EXCEPT ![i] = "awaitExec"]
          /\ UNCHANGED response
  /\ UNCHANGED <<req, shell_command, args, tokVars, hostVars>>

\* The running child writes a chunk to its standard output.
ChildWriteStdout(i) ==
  /\ child[i].state = "running"
  /\ Len(child[i].stdout) < MaxChunks
  /\ child' = [child EXCEPT ![i].stdout = @ \o <<"out">>]
  /\ UNCHANGED <<pc, req, shell_command, args, lookup, steps, response, tokVars, hostVars>>

\* The running child writes a chunk to its standard error.
ChildWriteStderr(i) ==
  /\ child[i].state = "running"
  /\ Len(child[i].stderr) < MaxChunks
  /\ child' = [child EXCEPT ![i].stderr = @ \o <<"err">>]
  /\ UNCHANGED <<pc, req, shell_command, args, lookup, steps, response, tokVars, hostVars>>

\* The child terminates with an exit code.
ChildExit(i, code) ==
  /\ child[i].state = "running"
  /\ child' = [child EXCEPT ![i].state = "exited", ![i].exitCode = code]
  /\ UNCHANGED <<pc, req, shell_command, args, lookup, steps, response, tokVars, hostVars>>

\* The launch fails: no process ever ran.
ChildLaunchFail(i) ==
  /\ child[i].state = "running"
  /\ child[i].stdout = <<>> /\ child[i].stderr = <<>>
  /\ child' = [child EXCEPT ![i].state = "failed"]
  /\ UNCHANGED <<pc, req, shell_command, args, lookup, steps, response, tokVars, hostVars>>

\* A handler that appends each output to one buffer kept across invocations.
AfterExecAccumulating(i) ==
  /\ proc = "running"
  /\ pc[i] = "awaitExec"
  /\ ExecaSettled(child[i])
  /\ response' = [response EXCEPT ![i] =
       IF child[i].state = "exited" /\ child[i].exitCode = 0
         THEN SuccessResponse(
                (IF \E j \in Inv : response[j].kind = "content"
                   THEN response[CHOOSE j \in Inv :
                                   response[j].kind = "content"].content[1].text
                   ELSE <<>>) \o child[i].stdout,
                child[i].stderr)
         ELSE CatchResponse(ExecaError(child[i]))]
  /\ pc' = [pc EXCEPT ![i] = "done"]
  /\ UNCHANGED <<req, shell_command, args, lookup, steps, child, tokVars, hostVars>>

\* execa's promise settles and the handler returns.
AfterExec(i) ==
  /\ proc = "running"
  /\ pc[i] = "awaitExec"
  /\ ExecaSettled(child[i])
  /\ response' = [response EXCEPT ![i] =
       IF child[i].state = "exited" /\ child[i].exitCode = 0
         THEN SuccessResponse(child[i].stdout, child[i].stderr)
         ELSE CatchResponse(ExecaError(child[i]))]
  /\ pc' = [pc EXCEPT ![i] = "done"]
  /\ UNCHANGED <<req, shell_command, args, lookup, steps, child, tokVars, hostVars>>

ExitCodes == {0, 1}

\* invocations in flight together, over the core commands
Next ==
  \/ \E i \in Inv, name \in ToolNames, command \in CoreCommands :
       Receive(i, name, command)
  \/ \E i \in Inv : \E result \in LookupResults(shell_command[i]) :
       AfterLookup(i, result)
  \/ \E i \in Inv : ChildWriteStdout(i)
  \/ \E i \in Inv : ChildWriteStderr(i)
  \/ \E i \in Inv, code \in ExitCodes : ChildExit(i, code)
  \/ \E i \in Inv : ChildLaunchFail(i)
  \/ \E i \in Inv : AfterExec(i)

Spec == Init /\ [][Next]_vars

\* the event loop runs a continuation once its promise has settled, and the
\* existence lookup settles; nothing makes a child process terminate
Fairness ==
  \A i \in Inv :
    /\ WF_vars(\E result \in LookupResults(shell_command[i]) :
                 AfterLookup(i, result))
    /\ WF_vars(AfterExec(i))

FairSpec == Init /\ [][Next]_vars /\ Fairness

\* one invocation, over every command shape
NextOne ==
  \/ \E name \in ToolNames, command \in AllCommands : Receive(1, name, command)
  \/ \E result \in LookupResults(shell_command[1]) : AfterLookup(1, result)
  \/ ChildWriteStdout(1)
  \/ ChildWriteStderr(1)
  \/ \E code \in ExitCodes : ChildExit(1, code)
  \/ ChildLaunchFail(1)
  \/ AfterExec(1)

SpecOne == Init /\ [][NextOne]_vars

\* ------------------------------------------------ tokenizer specification
\* every string over the alphabet up to the bound
Strings == UNION {[1..n -> Alphabet] : n \in 0..MaxLen}

TokInit ==
  /\ HandlerInit
  /\ HostServing
  /\ tokIn \in Strings
  /\ tokOut = [matches |-> <<>>, tokens |-> <<>>]
  /\ tokPc = "start"

\* one call of splitCommand
TokSplit ==
  /\ tokPc = "start"
  /\ tokOut' = [matches |-> SplitMatches(ToStr(tokIn), 1),
                tokens |-> splitCommand(tokIn)]
  /\ tokPc' = "done"
  /\ UNCHANGED <<tokIn, handlerVars, hostVars>>

TokNext == TokSplit

SpecTok == TokInit /\ [][TokNext]_vars

\* ------------------------------------------------------------- shutdown
\* `await this.server.close()` has resumed
CloseAwaitedSkipped(t) == TRUE

CloseAwaited(t) == t = "closed"

\* SIGINT arrives: the handler calls server.close() and suspends on it.
Sigint ==
  /\ proc = "running"
  /\ sigint < MaxSignals
  /\ sigint' = sigint + 1
  /\ transport' = IF transport = "connected" THEN "closing" ELSE transport
  /\ UNCHANGED <<handlerVars, tokVars, proc, exitCode, console, env, fs, fsLog>>

\* The close of the transport completes.
CloseSettle ==
  /\ proc = "running"
  /\ transport = "closing"
  /\ transport' = "closed"
  /\ UNCHANGED <<handlerVars, tokVars, proc, exitCode, sigint, console, env, fs,
                 fsLog>>

\* A SIGINT handler resumes after its await and calls process.exit(0).
SigintExit ==
  /\ proc = "running"
  /\ sigint > 0
  /\ CloseAwaited(transport)
  /\ proc' = "exited"
  /\ exitCode' = 0
  /\ UNCHANGED <<handlerVars, tokVars, transport, sigint, console, env, fs,
                 fsLog>>

\* the serving host with interrupts, one invocation over every command
NextSig == NextOne \/ Sigint \/ CloseSettle \/ SigintExit

SpecSig == Init /\ [][NextSig]_vars

\* ---------------------------------------------------------------- startup
\* updateConfig(), called first by main: the whole function, with the file
\* system deciding whether mkdirSync and writeFileSync succeed.
UpdateConfig(mkdirOk, writeOk) ==
  /\ proc = "start"
  /\ IF ~IsNpx(env)
       THEN /\ console' = console \o <<ConsoleLog("Not running via npx")>>
            /\ proc' = "configured"
            /\ UNCHANGED <<exitCode, fs, fsLog>>
     ELSE IF ~PlatformSupported(env.platform)
       THEN \* getConfigPath throws outside the try: main's promise rejects
            /\ proc' = "rejected"
            /\ UNCHANGED <<exitCode, console, fs, fsLog>>
     ELSE
       LET built == BuildConfig(fs.file, env.argv1)
           created == IF JSONParse(fs.file).ok THEN <<>>
                      ELSE <<ConsoleLog("Creating new config file")>>
           mkdir == ~fs.dirExists
           calls == <<"read">> \o
                    (IF built.threw THEN <<>>
                     ELSE <<"exists">> \o
                          (IF mkdir THEN <<"mkdir">> ELSE <<>>) \o
                          (IF mkdir /\ ~mkdirOk THEN <<>> ELSE <<"write">>))
           threw == built.threw \/ (mkdir /\ ~mkdirOk) \/ ~writeOk
       IN  /\ fsLog' = fsLog \o calls
           /\ IF threw
                THEN /\ console' = console \o created \o
                                   <<ConsoleError("Error updating config:")>>
                     /\ proc' = "exited"
                     /\ exitCode' = 1
                     /\ fs' = [fs EXCEPT !.dirExists =
                                 @ \/ (~built.threw /\ mkdirOk)]
                ELSE /\ console' = console \o created \o
                                   <<ConsoleLog("Updated config at:"),
                                     ConsoleLog("Added server with command:")>>
                     /\ proc' = "configured"
                     /\ fs' = [file |-> Stringify(built.config),
                               dirExists |-> TRUE]
                     /\ UNCHANGED exitCode
  /\ UNCHANGED <<handlerVars, tokVars, transport, sigint, env>>

\* main().catch: logs the error and exits with code 1.
MainCatch ==
  /\ proc = "rejected"
  /\ console' = console \o <<ConsoleError("Server error:")>>
  /\ proc' = "exited"
  /\ exitCode' = 1
  /\ UNCHANGED <<handlerVars, tokVars, transport, sigint, env, fs, fsLog>>

\* new ShellServer() and server.run(): the transport connects.
ServerRun ==
  /\ proc = "configured"
  /\ transport' = "connected"
  /\ console' = console \o <<ConsoleError("MCP server running on stdio")>>
  /\ proc' = "running"
  /\ UNCHANGED <<handlerVars, tokVars, exitCode, sigint, env, fs, fsLog>>

BootInit ==
  /\ HandlerInit /\ TokIdle
  /\ proc = "start"
  /\ exitCode = -1
  /\ transport = "none"
  /\ sigint = 0
  /\ console = <<>>
  /\ env \in Envs
  /\ fs \in FsStates
  /\ fsLog = <<>>

\* the process from its start, serving one invocation
NextBoot ==
  \/ \E mkdirOk, writeOk \in BOOLEAN : UpdateConfig(mkdirOk, writeOk)
  \/ MainCatch
  \/ ServerRun
  \/ NextOne

SpecBoot == BootInit /\ [][NextBoot]_vars

\* ------------------------------------------------------------ properties
RunCommand(i) == pc[i] # "idle" /\ req[i].name = RUN_COMMAND
Done(i) == pc[i] = "done"
StepSet(i) == {steps[i][k] : k \in 1..Len(steps[i])}
Launched(i) == "launch" \in StepSet(i) \/ child[i].state # "none"
IsContent(i) == response[i].kind = "content" /\ Len(response[i].content) = 1
Text(i) == response[i].content[1].text
Contains(text, piece) == \E k \in 1..Len(text) : text[k] = piece
Denied(i) == RunCommand(i) /\ shell_command[i] \in BLACKLISTED_COMMANDS
NotFoundText(name) == <<"Error: ", "Command not found: ">> \o name
NotAllowedText(name) == <<"Error: ", "Command not allowed: ">> \o name
Blank(command) ==
  command # Undefined /\ \A k \in 1..Len(command) : command[k] \in WhiteSpace

\* C1: an invocation whose first token is denylisted never launches a child
\* process, in any state it passes through, whatever the lookup answers and
\* whatever its arguments are.
C1_DeniedNeverLaunched ==
  \A i \in Inv : Denied(i) => ~Launched(i)

C1_Witness ==
  \E i \in Inv : /\ Denied(i) /\ Done(i)
                 /\ lookup[i].kind = "found"
                 /\ args[i] # <<>>

\* C2 as stated: a denylisted first token always ends in a Failure whose text
\* is "Command not allowed: <name>", whatever the lookup answered.
C2_DeniedAlwaysNotAllowed ==
  \A i \in Inv : Denied(i) /\ Done(i) =>
    IsContent(i) /\ Text(i) = NotAllowedText(shell_command[i])

\* C2 amended: a denylisted first token ends in the Failure "Command not
\* allowed: <name>" when the lookup found the executable, in "Command not
\* found: <name>" when the lookup reported it missing, and in the stringified
\* rejection when the lookup was rejected.
C2_DeniedFailureByLookup ==
  \A i \in Inv : Denied(i) /\ Done(i) =>
    /\ IsContent(i)
    /\ lookup[i].kind \in {"found", "missing", "rejected"}
    /\ lookup[i].kind = "found" =>
         /\ Text(i) = NotAllowedText(shell_command[i])
         /\ Contains(Text(i), "Command not allowed: ")
    /\ lookup[i].kind = "missing" => Text(i) = NotFoundText(shell_command[i])
    /\ lookup[i].kind = "rejected" => Text(i) = String(lookup[i].error)

C2_Witness ==
  \E i \in Inv : /\ Denied(i) /\ Done(i)
                 /\ lookup[i].kind = "found"
                 /\ shell_command[i] = <<"s", "u", "d", "o">>

\* C3: when the lookup reports the first token missing, the response is a
\* Failure whose text contains "Command not found", the policy check is never
\* evaluated for that invocation and no child process is launched.
C3_MissingIsNotFound ==
  \A i \in Inv : RunCommand(i) /\ lookup[i].kind = "missing" =>
    /\ Done(i) /\ IsContent(i)
    /\ Contains(Text(i), "Command not found: ")
    /\ Text(i) = NotFoundText(ToStr(shell_command[i]))
    /\ "policy" \notin StepSet(i)
    /\ ~Launched(i)

C3_Witness ==
  \E i \in Inv : /\ RunCommand(i) /\ lookup[i].kind = "missing"
                 /\ shell_command[i] \in BLACKLISTED_COMMANDS

\* C4: a run_command invocation never raises past the handler: whatever fails
\* after the operation-name check comes back as a content-bearing response,
\* and a thrown error is the answer to an unknown operation name only.
C4_RunCommandNeverThrows ==
  \A i \in Inv :
    /\ RunCommand(i) => response[i].kind # "thrown"
    /\ RunCommand(i) /\ Done(i) => IsContent(i)
    /\ response[i].kind = "thrown" => req[i].name # RUN_COMMAND

C4_Witness ==
  \E i \in Inv : /\ RunCommand(i) /\ Done(i)
                 /\ child[i].state = "exited" /\ child[i].exitCode # 0
                 /\ IsContent(i)

\* C5: every response to a run_command invocation is a list of exactly one
\* item with type "text" and mimeType "text/plain", on every path.
C5_OneTextItem ==
  \A i \in Inv : RunCommand(i) /\ Done(i) =>
    /\ response[i].kind = "content"
    /\ Len(response[i].content) = 1
    /\ DOMAIN response[i].content[1] = {"type", "text", "mimeType"}
    /\ response[i].content[1].type = "text"
    /\ response[i].content[1].mimeType = "text/plain"

C5_Witness ==
  \E i \in Inv : /\ RunCommand(i) /\ Done(i)
                 /\ child[i].state = "exited" /\ child[i].exitCode = 0
                 /\ Text(i) = <<"out">>

\* C6: an invocation with another operation name ends in a protocol-level
\* error with no content, and neither tokenization, lookup, policy check nor
\* launch takes place for it.
C6_UnknownToolOnlyThrows ==
  \A i \in Inv : pc[i] # "idle" /\ req[i].name # RUN_COMMAND =>
    /\ Done(i)
    /\ response[i].kind = "thrown" /\ response[i].content = <<>>
    /\ response[i].error = MkError(<<"Unknown tool: ", req[i].name>>)
    /\ steps[i] = <<>>
    /\ lookup[i].kind = "none"
    /\ shell_command[i] = Undefined /\ args[i] = <<>>
    /\ ~Launched(i)

C6_Witness ==
  \E i \in Inv : /\ Done(i) /\ req[i].name = "other_tool"
                 /\ req[i].command = <<"l", "s">>

\* C7 as stated: an empty or whitespace-only command always ends in the
\* Failure "Command not found: undefined".
C7_BlankAlwaysNotFound ==
  \A i \in Inv : RunCommand(i) /\ Blank(req[i].command) /\ Done(i) =>
    IsContent(i) /\ Text(i) = NotFoundText(UndefinedText)

\* C7 amended: an empty or whitespace-only command never raises and never
\* launches a child process; it ends in the Failure "Command not found:
\* undefined" when the lookup reports the executable missing, and in the
\* stringified rejection when the lookup is rejected.
C7_BlankFailsAtLookup ==
  \A i \in Inv : RunCommand(i) /\ Blank(req[i].command) =>
    /\ shell_command[i] = Undefined
    /\ response[i].kind # "thrown"
    /\ ~Launched(i)
    /\ Done(i) =>
         /\ IsContent(i)
         /\ lookup[i].kind \in {"missing", "rejected"}
         /\ lookup[i].kind = "missing" => Text(i) = NotFoundText(UndefinedText)
         /\ lookup[i].kind = "rejected" => Text(i) = String(lookup[i].error)

C7_Witness ==
  \E i \in Inv : /\ RunCommand(i) /\ Done(i)
                 /\ req[i].command = <<" ", "\t">>
                 /\ lookup[i].kind = "missing"

\* C8: once an invocation that launched a child process has a response, its
\* child has terminated and the output in the response is the child's final
\* output, whatever the other invocations are doing.
C8_ResponseAfterChildExit ==
  \A i \in Inv : Launched(i) /\ response[i].kind # "none" =>
    /\ child[i].state \in {"exited", "failed"}
    /\ child[i].state = "exited" /\ child[i].exitCode = 0 =>
         Text(i) \in {child[i].stdout, child[i].stderr}

C8_Witness ==
  \E i, j \in Inv : /\ i # j
                    /\ Launched(i) /\ Done(i) /\ child[i].state = "exited"
                    /\ child[i].stdout # <<>>
                    /\ pc[j] = "awaitExec" /\ child[j].state = "running"

\* C9: after a successful child process the response text is the captured
\* standard output if that is non-empty, and the captured standard error
\* otherwise.
C9_StdoutElseStderr ==
  \A i \in Inv :
    Done(i) /\ child[i].state = "exited" /\ child[i].exitCode = 0 =>
      /\ IsContent(i)
      /\ child[i].stdout # <<>> => Text(i) = child[i].stdout
      /\ child[i].stdout = <<>> => Text(i) = child[i].stderr

C9_Witness ==
  \E i \in Inv : /\ Done(i) /\ child[i].state = "exited"
                 /\ child[i].exitCode = 0
                 /\ child[i].stdout = <<>> /\ child[i].stderr # <<>>
                 /\ Text(i) = child[i].stderr

\* C10: every quoted match of the tokenizer gives exactly one token, and that
\* token is the text between the quotes (escaped newlines converted), also
\* when nothing stands between the quotes.
C10_QuotedContentIsToken ==
  tokPc = "done" =>
    /\ Len(tokOut.tokens) = Len(tokOut.matches)
    /\ \A k \in 1..Len(tokOut.matches) :
         LET m == tokOut.matches[k]
         IN  tokIn[m.index] \in {DQ, SQ} =>
               tokOut.tokens[k] =
                 ReplaceEscapedNewline(SubSeq(tokIn, m.index + 1, m.last - 1))

\* C11: in every token, quoted or not, each backslash-n pair of the matched
\* text has become one newline character and nothing else has changed: the
\* token holds no backslash-n pair, and putting the pair back for each
\* newline gives the matched text (or, for a quoted match, the text between
\* the quotes).
HasEscapedNewline(s) ==
  \E k \in 1..(Len(s) - 1) : s[k] = BS /\ s[k + 1] = "n"

RECURSIVE RestoreEscapedNewline(_)
RestoreEscapedNewline(s) ==
  IF Len(s) = 0 THEN <<>>
  ELSE (IF s[1] = NL THEN <<BS, "n">> ELSE <<s[1]>>)
       \o RestoreEscapedNewline(Tail(s))

C11_EscapedNewlinesReplaced ==
  tokPc = "done" =>
    /\ Len(tokOut.tokens) = Len(tokOut.matches)
    /\ \A k \in 1..Len(tokOut.matches) :
         LET m == tokOut.matches[k]
             t == tokOut.tokens[k]
         IN  /\ ~HasEscapedNewline(t)
             /\ \/ RestoreEscapedNewline(t) = m.m0
                \/ /\ tokIn[m.index] \in {DQ, SQ}
                   /\ RestoreEscapedNewline(t) =
                        SubSeq(tokIn, m.index + 1, m.last - 1)

C11_Witness ==
  /\ tokPc = "done"
  /\ tokIn = <<BS, "n", BS, "n">>
  /\ tokOut.tokens = <<<<NL, NL>>>>

\* C12: the host process exits on an interrupt only once the close of the
\* transport has completed, and no step of the shutdown path (the signal, the
\* close, the exit) changes the child process of any invocation.
C12_CloseBeforeExit ==
  /\ [](proc = "exited" => transport = "closed" /\ exitCode = 0 /\ sigint > 0)
  /\ [][(sigint' # sigint \/ transport' # transport \/ proc' # proc)
          => child' = child]_vars

C12_Witness ==
  /\ proc = "exited" /\ transport = "closed"
  /\ \E i \in Inv : pc[i] = "awaitExec" /\ child[i].state = "running"

\* C13: every diagnostic the process writes, from its start on, goes to the
\* diagnostic stream (standard error) and none to standard output, which
\* carries the protocol traffic.
C13_DiagnosticsOnlyOnStderr ==
  \A k \in 1..Len(console) : console[k].stream = "stderr"

\* C14: a failed self-registration (unsupported platform, unusable config,
\* directory creation or write failure) is logged and never ends the process
\* with a failure code: the server still starts.
C14_RegistrationFailureDoesNotExit ==
  /\ proc # "rejected"
  /\ ~(proc = "exited" /\ exitCode = 1)

\* C20 as stated: whenever updateConfig runs under a package runner, the
\* existing file parses as JSON and a file is written, the written file is
\* the existing config with mcpServers['shell-server'] set to {command:
\* <script path>} and everything else as it was; without a package runner the
\* file is neither read nor written.
UpdateStep == proc = "start" /\ proc' # "start"
Wrote == UpdateStep /\ proc' = "configured" /\ fsLog' # fsLog
OldServers ==
  IF "mcpServers" \in DOMAIN fs.file.m /\ fs.file.m["mcpServers"].t = "object"
    THEN fs.file.m["mcpServers"].m ELSE EmptyMap

ShellServerRegistered ==
  /\ fs'.file.t = fs.file.t
  /\ DOMAIN fs'.file.m = (DOMAIN fs.file.m) \cup {"mcpServers"}
  /\ \A k \in (DOMAIN fs.file.m) \ {"mcpServers"} :
       fs'.file.m[k] = fs.file.m[k]
  /\ fs'.file.m["mcpServers"].t = "object"
  /\ DOMAIN fs'.file.m["mcpServers"].m = (DOMAIN OldServers) \cup {"shell-server"}
  /\ \A k \in (DOMAIN OldServers) \ {"shell-server"} :
       fs'.file.m["mcpServers"].m[k] = OldServers[k]
  /\ fs'.file.m["mcpServers"].m["shell-server"] =
       JObject([command |-> JString(env.argv1)])

NotTouchedWithoutNpx ==
  UpdateStep /\ ~IsNpx(env) => fs' = fs /\ fsLog' = <<>> /\ fsLog = <<>>

C20_WrittenConfigRegisters ==
  [][/\ NotTouchedWithoutNpx
     /\ Wrote /\ IsNpx(env) /\ JSONParse(fs.file).ok => ShellServerRegistered
    ]_vars

\* C20 amended: the same, for an existing config that parses as a JSON object
\* (not an array) whose mcpServers member is not an array.
C20_WrittenObjectConfigRegisters ==
  [][/\ NotTouchedWithoutNpx
     /\ (/\ Wrote /\ IsNpx(env) /\ JSONParse(fs.file).ok
         /\ fs.file.t = "object"
         /\ Get(fs.file, "mcpServers").t # "array")
        => ShellServerRegistered
    ]_vars

C20_Witness ==
  /\ proc = "configured" /\ IsNpx(env) /\ ~IncludesNpx(env.argv1)
  /\ fsLog = <<"read", "exists", "write">>
  /\ fs.file = JObject([theme |-> JString("dark"),
                        mcpServers |->
                          JObject([other |-> OtherEntry] @@
                                  ("shell-server" :> ServerEntry(env.argv1)))])

\* C15: two invocations with the same request, for an allowed and existing
\* command whose child process behaves the same both times, get identical
\* Success responses, and each is what one such invocation alone gets: the
\* child's output.
SameSuccessfulRun(i, j) ==
  /\ RunCommand(i) /\ RunCommand(j) /\ Done(i) /\ Done(j)
  /\ req[i] = req[j]
  /\ lookup[i].kind = "found" /\ lookup[j].kind = "found"
  /\ child[i].state = "exited" /\ child[i].exitCode = 0
  /\ child[j] = child[i]

C15_RepeatedInvocationSameSuccess ==
  \A i, j \in Inv : SameSuccessfulRun(i, j) =>
    /\ response[i] = response[j]
    /\ IsContent(i)
    /\ Text(i) = (IF child[i].stdout # <<>> THEN child[i].stdout ELSE child[i].stderr)

C15_Witness ==
  \E i, j \in Inv : /\ i # j /\ SameSuccessfulRun(i, j)
                    /\ req[i].command = <<"l", "s">>
                    /\ Text(i) = <<"out">> /\ Text(j) = <<"out">>

\* C16: once the policy has been evaluated, the invocation is denied exactly
\* when its first token is a member of the denylist, compared as it is; the
\* other tokens play no part, so another case, a path prefix and a denylisted
\* name as argument are all allowed and launched.
PolicyEvaluated(i) == RunCommand(i) /\ "policy" \in StepSet(i)
DeniedByPolicy(i) ==
  /\ Done(i) /\ ~Launched(i) /\ IsContent(i)
  /\ Text(i) = NotAllowedText(shell_command[i])

C16_DeniedIffFirstTokenListed ==
  \A i \in Inv : PolicyEvaluated(i) =>
    /\ DeniedByPolicy(i) <=> shell_command[i] \in BLACKLISTED_COMMANDS
    /\ "launch" \in StepSet(i) <=> shell_command[i] \notin BLACKLISTED_COMMANDS
    /\ (\/ shell_command[i] = <<"R", "M">>
        \/ shell_command[i] = <<"/", "b", "i", "n", "/", "r", "m">>
        \/ (shell_command[i] = <<"l", "s">> /\ args[i] = <<<<"r", "m">>>>))
       => "launch" \in StepSet(i)

C16_Witness ==
  \E i \in Inv : /\ PolicyEvaluated(i)
                 /\ shell_command[i] = <<"R", "M">>
                 /\ child[i].state = "running"

\* C17 as stated: the steps of an invocation run in the order tokenizer,
\* policy gate, existence resolver, process executor.
IsPrefix(s, t) == Len(s) <= Len(t) /\ s = SubSeq(t, 1, Len(s))

C17_PolicyBeforeLookup ==
  \A i \in Inv : IsPrefix(steps[i], <<"tokenize", "policy", "lookup", "launch">>)

\* C17 amended: the steps run in the order tokenizer, existence resolver,
\* policy gate, process executor; the policy check of the first token happens
\* only after its lookup has answered that it exists.
C17_LookupBeforePolicy ==
  \A i \in Inv :
    /\ IsPrefix(steps[i], <<"tokenize", "lookup", "policy", "launch">>)
    /\ "policy" \in StepSet(i) => lookup[i].kind = "found"
    /\ lookup[i].kind = "pending" => steps[i] = <<"tokenize", "lookup">>

C17_Witness ==
  \E i \in Inv : /\ steps[i] = <<"tokenize", "lookup", "policy", "launch">>
                 /\ Done(i)

\* C18: with invocations in flight together, each one's tokens, policy
\* verdict, child process and response come from its own command string, its
\* own lookup result and its own child process only.
OwnText(i) ==
  IF lookup[i].kind = "rejected" THEN String(lookup[i].error)
  ELSE IF lookup[i].kind = "missing"
    THEN NotFoundText(ToStr(FirstToken(splitCommand(req[i].command))))
  ELSE IF FirstToken(splitCommand(req[i].command)) \in BLACKLISTED_COMMANDS
    THEN NotAllowedText(FirstToken(splitCommand(req[i].command)))
  ELSE IF child[i].state = "exited" /\ child[i].exitCode = 0
    THEN (IF child[i].stdout # <<>> THEN child[i].stdout ELSE child[i].stderr)
  ELSE String(ExecaError(child[i]))

C18_ResponseFromOwnInputs ==
  \A i \in Inv : RunCommand(i) =>
    /\ shell_command[i] = FirstToken(splitCommand(req[i].command))
    /\ args[i] = RestTokens(splitCommand(req[i].command))
    /\ "policy" \in StepSet(i) =>
         ("launch" \in StepSet(i) <=>
            FirstToken(splitCommand(req[i].command)) \notin BLACKLISTED_COMMANDS)
    /\ child[i].state # "none" =>
         /\ child[i].file = FirstToken(splitCommand(req[i].command))
         /\ child[i].args = RestTokens(splitCommand(req[i].command))
    /\ Done(i) => IsContent(i) /\ Text(i) = OwnText(i)

C18_Witness ==
  \E i, j \in Inv :
    /\ i # j
    /\ Done(i) /\ Done(j)
    /\ req[i].command = <<"r", "m", " ", "x">> /\ lookup[i].kind = "found"
    /\ req[j].command = <<"l", "s">> /\ child[j].state = "exited"
    /\ child[j].exitCode = 0
    /\ Text(j) = <<"out">>
    /\ Text(i) = NotAllowedText(<<"r", "m">>)

\* C19: an invocation's response, once given, never changes; while its child
\* process runs it has none; and under fairness every behaviour ends with each
\* received invocation answered, except those whose child process is still
\* running: once the lookup has completed and the child (if launched) has
\* exited or failed to launch, the one response is given.
Answered(i) ==
  \/ pc[i] = "idle"
  \/ response[i].kind # "none"
  \/ child[i].state = "running"

C19_ExactlyOneResponse ==
  /\ [][\A i \in Inv :
          response[i].kind # "none" => response'[i] = response[i]]_vars
  /\ [](\A i \in Inv : child[i].state = "running" => response[i].kind = "none")
  /\ <>[](\A i \in Inv : Answered(i))

C19_Witness ==
  \E i, j \in Inv :
    /\ Done(i) /\ child[i].state = "failed" /\ response[i].kind = "content"
    /\ pc[j] = "awaitExec" /\ child[j].state = "running"
    /\ response[j].kind = "none"

====
